---- MODULE Spec2Model ----
(***************************************************************************)
(* Retrieval strategy engine of the RAG pipeline: dynamic k and strategy   *)
(* selection (src/src/retriever.py), query expansion and merge             *)
(* (src/src/query_translation.py), re-ranking (src/src/reranker.py) and    *)
(* the create_retriever orchestrator.                                      *)
(*                                                                         *)
(* Text is a sequence of one-character strings; Optional[int] is <<>> for  *)
(* None and <<n>> for the integer n.                                       *)
(***************************************************************************)
EXTENDS Integers, Sequences, FiniteSets, TLC

VARIABLES
    pc,             \* position of the running call
    question,       \* the question argument
    base_k,         \* the base_k argument
    max_k,          \* the max_k argument of calculate_dynamic_k
    other,          \* a second question, to compare dynamic k across questions
    k_out,          \* value returned by calculate_dynamic_k(question, ...)
    k_other,        \* value returned by calculate_dynamic_k(other, ...)
    strategy_out,   \* value returned by auto_select_strategy(question)
    num_queries,    \* the num_queries argument
    llm_out,        \* outcome of the paraphrase chain.invoke call
    queries,        \* the expansion set returned by generate_multi_queries
    CROSS_ENCODER_AVAILABLE, \* reranker.py module flag, set at import
    query,          \* the query argument of the re-ranking layer
    documents,      \* the documents argument of rerank_documents
    top_k,          \* the top_k argument (Optional[int])
    rerank_top_n,   \* the rerank_top_n argument
    docs,           \* create_rerank_retriever: what the base retriever returned
    scores,         \* what reranker.predict returned
    scorer_calls,   \* every reranker.predict call so far: the documents paired
    rr_path,        \* the return statement the re-ranking layer took
    result,         \* the list returned to the caller
    strategy,       \* create_retriever arguments
    metadata_filter,
    use_multi_query,
    llm,            \* TRUE: an LLM object, FALSE: None
    use_rerank,
    reranker,       \* TRUE: a CrossEncoder object, FALSE: None
    bm25_retriever, \* TRUE: the lexical index built at startup, FALSE: None
    bm25_k,         \* the k field of the shared lexical index
    qi,             \* create_multi_query_retriever: index of the next query
    all_docs,       \* create_multi_query_retriever: merged documents so far
    seen_ids,       \* create_multi_query_retriever: doc ids already merged
    final_docs,     \* the pool captured by multi_query_retriever
    retriever,      \* what create_retriever returned
    passes,         \* base retrieval passes run so far, in order
    invocations,    \* calls of the returned retriever so far
    results,        \* what each pass of the expansion loop returned, when kept
    chunks,         \* main: TRUE when loading and splitting gives chunks
    persisted,      \* main: TRUE when a non-empty vector store directory exists
    vectorstore,    \* main: TRUE once create_vectorstore returned a store
    bm25_builds,    \* main: calls of build_bm25_retriever so far
    queries_read,   \* main: lines read by input() so far
    held,           \* retrievers a caller built and still holds, in build order
    llm_calls,      \* calls of the paraphrase chain made so far
    depth,          \* deepest create_retriever call that took the expansion path
    returned        \* what the earlier calls of the returned retriever gave back

selVars == <<max_k, other, k_out, k_other, strategy_out>>
genVars == <<num_queries, llm_out, queries>>
rrVars == <<CROSS_ENCODER_AVAILABLE, query, documents, top_k, rerank_top_n,
            docs, scores, scorer_calls, rr_path, result>>
cfgVars == <<strategy, metadata_filter, use_multi_query, llm, use_rerank,
             reranker, bm25_retriever>>
flowVars == <<bm25_k, qi, all_docs, seen_ids, final_docs, retriever, passes,
              invocations, results>>
orchVars == <<cfgVars, flowVars>>
procVars == <<chunks, persisted, vectorstore, bm25_builds, queries_read>>
termVars == <<llm_calls, depth, returned>>
vars == <<pc, question, base_k, selVars, genVars, rrVars, orchVars, procVars,
          held, termVars>>

\* ------------------------------------------------------------------ bounds
MaxBaseK == 4
MaxMaxK == 6
MaxNumQueries == 3
MaxLines == 3
MaxDocs == 3
MaxTopK == 3
MaxTopN == 3
MaxPoolK == 1
MaxHits == 2
MaxInvokes == 2
MaxExpansion == 2
MaxMergeK == 2
MaxQueries == 2
MaxHeld == 2

\* ------------------------------------------- values of a layer not in use
SelIdle ==
    /\ max_k = 0
    /\ other = <<>>
    /\ k_out = 0
    /\ k_other = 0
    /\ strategy_out = ""

GenIdle ==
    /\ num_queries = 0
    /\ llm_out = [ok |-> FALSE, text |-> <<>>]
    /\ queries = <<>>

RerankIdle ==
    /\ CROSS_ENCODER_AVAILABLE = TRUE
    /\ query = <<>>
    /\ documents = <<>>
    /\ top_k = <<>>
    /\ rerank_top_n = 0
    /\ docs = <<>>
    /\ scores = <<>>
    /\ scorer_calls = <<>>
    /\ rr_path = ""
    /\ result = <<>>

OrchIdle ==
    /\ strategy = "auto"
    /\ metadata_filter = <<>>
    /\ use_multi_query = FALSE
    /\ llm = FALSE
    /\ use_rerank = FALSE
    /\ reranker = FALSE
    /\ bm25_retriever = FALSE
    /\ bm25_k = <<>>
    /\ qi = 0
    /\ all_docs = <<>>
    /\ seen_ids = {}
    /\ final_docs = <<>>
    /\ retriever = [kind |-> "none"]
    /\ passes = <<>>
    /\ invocations = 0
    /\ results = <<>>

TermIdle ==
    /\ llm_calls = 0
    /\ depth = 0
    /\ returned = <<>>

ProcIdle ==
    /\ chunks = FALSE
    /\ persisted = FALSE
    /\ vectorstore = FALSE
    /\ bm25_builds = 0
    /\ queries_read = 0
    /\ held = <<>>

\* ------------------------------------------------------------- Python text
Min(a, b) == IF a <= b THEN a ELSE b
Max(a, b) == IF a >= b THEN a ELSE b

UpperChars == <<"A", "B", "C", "D", "E", "F", "G", "H", "I", "J", "K", "L", "M",
                "N", "O", "P", "Q", "R", "S", "T", "U", "V", "W", "X", "Y", "Z">>
LowerChars == <<"a", "b", "c", "d", "e", "f", "g", "h", "i", "j", "k", "l", "m",
                "n", "o", "p", "q", "r", "s", "t", "u", "v", "w", "x", "y", "z">>

\* str.lower() of one character: a cased ASCII letter maps to its lower-case
\* letter, U+0130 (dotted capital I) to "i" followed by U+0307, anything else
\* to itself.
LowerChar(c) ==
    IF \E i \in DOMAIN UpperChars : UpperChars[i] = c
    THEN <<LowerChars[CHOOSE i \in DOMAIN UpperChars : UpperChars[i] = c]>>
    ELSE IF c = "U+0130" THEN <<"i", "U+0307">>
    ELSE <<c>>

RECURSIVE Lower(_)
Lower(s) == IF s = <<>> THEN <<>> ELSE LowerChar(Head(s)) \o Lower(Tail(s))

\* Python's `x in q` on strings: x occurs as a contiguous substring of q.
Contains(x, q) ==
    \E i \in 0..(Len(q) - Len(x)) : SubSeq(q, i + 1, i + Len(x)) = x

\* ---------------------------------------------------------------- selector
indicators ==
    << <<"v", "e">>,
       <<"n", "e", "d", "e", "n">>,
       <<"n", "a", "s", "i", "l">>,
       <<"h", "a", "n", "g", "i">>,
       <<"n", "e", " ", "z", "a", "m", "a", "n">>,
       <<"k", "i", "m">> >>

\* score = sum(1 for x in indicators if x in q)
IndicatorScore(q) ==
    Cardinality({i \in DOMAIN indicators : Contains(indicators[i], Lower(q))})

\* The branches on score, as a function of the score.
DynamicKMutant(score, b, m) ==
    IF score >= 2 THEN Min(b + 2, m)
    ELSE IF score = 1 THEN Min(b + 4, m)
    ELSE b

DynamicKOfScore(score, b, m) ==
    IF score >= 2 THEN Min(b + 4, m)
    ELSE IF score = 1 THEN Min(b + 2, m)
    ELSE b

calculate_dynamic_k(q, b, m) == DynamicKOfScore(IndicatorScore(q), b, m)

NumericTerms ==
    { <<"k", "a", "c">>,
      <<"s", "u", "r", "e">>,
      <<"n", "e", " ", "z", "a", "m", "a", "n">>,
      <<"d", "a", "k", "i", "k", "a">> }

WhyHowTerms ==
    { <<"n", "e", "d", "e", "n">>,
      <<"n", "a", "s", "i", "l">> }

AnyIn(terms, q) == \E x \in terms : Contains(x, q)

StrategyMutant(q) ==
    IF AnyIn(WhyHowTerms, Lower(q)) THEN "mmr"
    ELSE IF AnyIn(NumericTerms, Lower(q)) THEN "hybrid"
    ELSE "similarity"

auto_select_strategy(q) ==
    IF AnyIn(NumericTerms, Lower(q)) THEN "hybrid"
    ELSE IF AnyIn(WhyHowTerms, Lower(q)) THEN "mmr"
    ELSE "similarity"

\* The three questions of the prompt's examples (src/main.py).
ExampleDuration ==
    <<"D", "a", "i", "l", "y", " ", "S", "c", "r", "u", "m", " ", "n", "e", " ",
      "k", "a", "d", "a", "r", " ", "s", "u", "r", "e", "r", "?">>
ExampleWho ==
    <<"S", "p", "r", "i", "n", "t", " ", "P", "l", "a", "n", "n", "i", "n", "g",
      " ", "k", "i", "m", "l", "e", "r", " ", "t", "a", "r", "a", "f", "i", "n",
      "d", "a", "n", " ", "y", "a", "p", "i", "l", "i", "r", "?">>
ExampleDurationWhy ==
    <<"D", "a", "i", "l", "y", " ", "S", "c", "r", "u", "m", " ", "n", "e", " ",
      "k", "a", "d", "a", "r", " ", "s", "u", "r", "e", "r", " ", "v", "e", " ",
      "n", "e", "d", "e", "n", " ", "y", "a", "p", "i", "l", "i", "r", "?">>

Examples == {ExampleDuration, ExampleWho, ExampleDurationWhy}

\* --------------------------------------------------------- query expansion
Whitespace == {" ", "\t", "\r", "\n"}
EnumerationMarkers ==
    {"0", "1", "2", "3", "4", "5", "6", "7", "8", "9", ".", "-", ")", " "}

RECURSIVE LStrip(_, _)
LStrip(s, chars) ==
    IF s # <<>> /\ Head(s) \in chars THEN LStrip(Tail(s), chars) ELSE s

RECURSIVE RStrip(_, _)
RStrip(s, chars) ==
    IF s # <<>> /\ s[Len(s)] \in chars
    THEN RStrip(SubSeq(s, 1, Len(s) - 1), chars)
    ELSE s

\* str.strip()
Strip(s) == LStrip(RStrip(s, Whitespace), Whitespace)

\* str.split(sep) for a one-character separator: always at least one field.
RECURSIVE Split(_, _)
Split(s, sep) ==
    IF \E i \in DOMAIN s : s[i] = sep
    THEN LET i == CHOOSE j \in DOMAIN s :
                     s[j] = sep /\ \A h \in 1..(j - 1) : s[h] # sep
         IN  <<SubSeq(s, 1, i - 1)>> \o Split(SubSeq(s, i + 1, Len(s)), sep)
    ELSE <<s>>

\* s[:n]
PySlice(s, n) ==
    IF n >= 0 THEN SubSeq(s, 1, Min(n, Len(s)))
    ELSE SubSeq(s, 1, Max(Len(s) + n, 0))

\* queries = [q.strip() for q in result.split("\n") if q.strip()]
StrippedLines(text) ==
    LET lines == Split(text, "\n")
        stripped == [i \in DOMAIN lines |-> Strip(lines[i])]
    IN  SelectSeq(stripped, LAMBDA q : q # <<>>)

\* q.lstrip("0123456789.-) ").strip()
CleanLine(q) == Strip(LStrip(q, EnumerationMarkers))

LongEnoughMutant(q) == q # <<>> /\ Len(q) >= 5

\* if q and len(q) > 5
LongEnough(q) == q # <<>> /\ Len(q) > 5

CleanedQueries(text) ==
    LET lines == StrippedLines(text)
        cleaned == [i \in DOMAIN lines |-> CleanLine(lines[i])]
    IN  SelectSeq(cleaned, LongEnough)

\* The except branch: the failure is printed and [question] returned.
OnGenerationFailure(q) == [raised |-> FALSE, value |-> <<q>>]

\* generate_multi_queries, given the outcome o of chain.invoke: o.ok with the
\* generated o.text, or an exception.
generate_multi_queries(q, o, n) ==
    IF o.ok
    THEN [raised |-> FALSE,
          value |-> <<q>> \o PySlice(CleanedQueries(o.text), n)]
    ELSE OnGenerationFailure(q)

\* ------------------------------------------------- query expansion inputs
GenLines ==
    { <<"1", ".", " ", "a", "b", "c", "d", "e", "f">>,
      <<"-", " ", "a", "b", "c", "d", "e", "f", "g">>,
      <<"2", ")", " ", "a", "b", "c">>,
      <<"a", "b", "c", "d", "e">>,
      <<"1", "2", "3", "4", "5">>,
      <<" ", " ">>,
      <<"1", ".", "\t", "2", ".", " ", "a", "b", "c", "d", "e", "f">>,
      <<" ", "k", "a", "c", " ", "s", "u", "r", "e", "?", " ", "\r">>,
      <<"3", ".", " ", "n", "e", "d", "e", "n", " ", " ", "\t">> }

RECURSIVE TextsOf(_)
\* Texts of at most n lines, joined by "\n".
TextsOf(n) ==
    IF n = 0 THEN {<<>>}
    ELSE LET shorter == TextsOf(n - 1)
         IN  shorter \cup GenLines
                 \cup {t \o <<"\n">> \o l : t \in shorter \ {<<>>}, l \in GenLines}
                 \cup {t \o <<"\n">> : t \in shorter}

LlmFailure == [ok |-> FALSE, text |-> <<>>]
LlmOutcomes(texts) == {[ok |-> TRUE, text |-> t] : t \in texts} \cup {LlmFailure}

GenQuestions == {<<"k", "a", "c">>, ExampleWho}

\* ------------------------------------------- specification: query expansion
GenInit ==
    /\ ProcIdle
    /\ TermIdle
    /\ pc = "gen_call"
    /\ question \in GenQuestions
    /\ base_k = 0
    /\ num_queries \in 0..MaxNumQueries
    /\ llm_out = LlmFailure
    /\ queries = <<>>
    /\ SelIdle
    /\ RerankIdle
    /\ OrchIdle

\* One call of generate_multi_queries: the chain is invoked once and its
\* outcome parsed, or the exception handled.
GenerateCall(outcomes) ==
    /\ pc = "gen_call"
    /\ \E o \in outcomes :
           LET r == generate_multi_queries(question, o, num_queries)
           IN  /\ llm_out' = o
               /\ queries' = r.value
               /\ pc' = IF r.raised THEN "raised" ELSE "gen_ret"
    /\ llm_calls' = llm_calls + 1
    /\ UNCHANGED <<procVars, held, depth, returned, question, base_k, num_queries, selVars, rrVars, orchVars>>

GenOutcomes == LlmOutcomes(TextsOf(MaxLines))

GenNext == GenerateCall(GenOutcomes)

SpecGen == GenInit /\ [][GenNext]_vars

\* C4: generate_multi_queries returns a sequence whose first element is the
\* original question whether generation succeeds or fails; on success at most
\* num_queries paraphrases follow, each at least 6 characters long once the
\* leading enumeration markers are stripped; on failure the result is exactly
\* [question] and no error reaches the caller.
C4_OriginalFirst ==
    /\ pc # "raised"
    /\ pc = "gen_ret" =>
           /\ Len(queries) >= 1
           /\ queries[1] = question
           /\ llm_out.ok =>
                  /\ Len(queries) - 1 <= num_queries
                  /\ \A i \in 2..Len(queries) :
                         /\ Len(queries[i]) >= 6
                         /\ \E l \in DOMAIN Split(llm_out.text, "\n") :
                                queries[i] = CleanLine(Strip(Split(llm_out.text, "\n")[l]))
           /\ ~llm_out.ok => queries = <<question>>

C4_WitnessSuccess ==
    /\ pc = "gen_ret"
    /\ llm_out.ok
    /\ num_queries = 2
    /\ Len(CleanedQueries(llm_out.text)) = 3
    /\ Len(queries) = 3

C4_WitnessFailure ==
    /\ pc = "gen_ret"
    /\ ~llm_out.ok
    /\ queries = <<question>>

\* ------------------------------------------------------------- re-ranking
None == <<>>
Some(n) == <<n>>

\* Truth value of an Optional[int]: None and 0 are falsy.
Truthy(o) == o # None /\ o[1] # 0

\* documents[:top_k] if top_k else documents
TruncTopK(d, o) == IF Truthy(o) THEN PySlice(d, o[1]) ELSE d

\* list(zip(scores, documents))
Zip(s, d) == [i \in 1..Min(Len(s), Len(d)) |-> <<s[i], d[i]>>]

\* Insert x into s, sorted non-increasing by score, after every element whose
\* score is at least that of x.
InsertDesc(x, s) ==
    LET n == Cardinality({i \in DOMAIN s : s[i][1] >= x[1]})
    IN  SubSeq(s, 1, n) \o <<x>> \o SubSeq(s, n + 1, Len(s))

InsertAsc(x, s) ==
    LET n == Cardinality({i \in DOMAIN s : s[i][1] <= x[1]})
    IN  SubSeq(s, 1, n) \o <<x>> \o SubSeq(s, n + 1, Len(s))

RECURSIVE SortAscMutant(_)
SortAscMutant(s) ==
    IF s = <<>> THEN <<>>
    ELSE InsertAsc(s[Len(s)], SortAscMutant(SubSeq(s, 1, Len(s) - 1)))

RECURSIVE SortByScoreDesc(_)
\* scored_docs.sort(key=lambda x: x[0], reverse=True): stable.
SortByScoreDesc(s) ==
    IF s = <<>> THEN <<>>
    ELSE InsertDesc(s[Len(s)], SortByScoreDesc(SubSeq(s, 1, Len(s) - 1)))

\* The success path of rerank_documents, after predict returned sc.
Reranked(sc, d, o) ==
    LET scored_docs == SortByScoreDesc(Zip(sc, d))
        reranked_docs == [i \in DOMAIN scored_docs |-> scored_docs[i][2]]
    IN  IF Truthy(o) THEN PySlice(reranked_docs, o[1]) ELSE reranked_docs

RerankDocs == {1, 2}
ScoreValues == {0, 1}
RerankQueries == {<<"k", "a", "c">>}

DocSeqs(ids, n) == UNION {[1..m -> ids] : m \in 0..n}
OptInts(n) == {None} \cup {Some(i) : i \in 0..n}

\* rerank_documents up to the call of the scorer.
RerankEnter ==
    /\ pc = "rd_call"
    /\ IF documents = <<>>
       THEN /\ result' = <<>>
            /\ rr_path' = "empty"
            /\ pc' = "ret"
       ELSE IF ~CROSS_ENCODER_AVAILABLE
       THEN /\ result' = TruncTopK(documents, top_k)
            /\ rr_path' = "unavailable"
            /\ pc' = "ret"
       ELSE /\ pc' = "predict"
            /\ UNCHANGED <<procVars, held, termVars, result, rr_path>>
    /\ UNCHANGED <<procVars, held, termVars, question, base_k, selVars, genVars, orchVars,
                   CROSS_ENCODER_AVAILABLE,
                   query, documents, top_k, rerank_top_n, docs, scores,
                   scorer_calls>>

\* reranker.predict(pairs) raises: the except branch.
PredictFails ==
    /\ pc = "predict"
    /\ scorer_calls' = Append(scorer_calls, documents)
    /\ result' = TruncTopK(documents, top_k)
    /\ rr_path' = "failed"
    /\ pc' = "ret"
    /\ UNCHANGED <<procVars, held, termVars, question, base_k, selVars, genVars, orchVars,
                   CROSS_ENCODER_AVAILABLE,
                   query, documents, top_k, rerank_top_n, docs, scores>>

\* reranker.predict(pairs) returns one score per pair; sort and truncate.
PredictReturns ==
    /\ pc = "predict"
    /\ scorer_calls' = Append(scorer_calls, documents)
    /\ \E sc \in [1..Len(documents) -> ScoreValues] :
           /\ scores' = sc
           /\ result' = Reranked(sc, documents, top_k)
    /\ rr_path' = "success"
    /\ pc' = "ret"
    /\ UNCHANGED <<procVars, held, termVars, question, base_k, selVars, genVars, orchVars,
                   CROSS_ENCODER_AVAILABLE,
                   query, documents, top_k, rerank_top_n, docs>>

\* create_rerank_retriever: the base retriever returns one of `pools`; a pool
\* of at most one document is returned without re-ranking, any other is cut
\* to rerank_top_n and handed to rerank_documents.
CreateRerankRetriever(pools) ==
    /\ pc = "crr_call"
    /\ \E d \in pools :
           /\ docs' = d
           /\ IF Len(d) <= 1
              THEN /\ result' = TruncTopK(d, top_k)
                   /\ rr_path' = "skipped"
                   /\ pc' = "ret"
                   /\ UNCHANGED documents
              ELSE /\ documents' = PySlice(d, rerank_top_n)
                   /\ pc' = "rd_call"
                   /\ UNCHANGED <<procVars, held, termVars, result, rr_path>>
    /\ UNCHANGED <<procVars, held, termVars, question, base_k, selVars, genVars, orchVars,
                   CROSS_ENCODER_AVAILABLE,
                   query, top_k, rerank_top_n, scores, scorer_calls>>

\* ------------------------------------------------ specification: re-ranking
RerankPools == DocSeqs(RerankDocs, MaxDocs)

RerankInit ==
    /\ ProcIdle
    /\ TermIdle
    /\ question = <<>>
    /\ base_k = 0
    /\ SelIdle
    /\ GenIdle
    /\ OrchIdle
    /\ CROSS_ENCODER_AVAILABLE \in BOOLEAN
    /\ query \in RerankQueries
    /\ top_k \in OptInts(MaxTopK)
    /\ docs = <<>>
    /\ scores = <<>>
    /\ scorer_calls = <<>>
    /\ rr_path = ""
    /\ result = <<>>
    /\ \/ /\ pc = "rd_call"
          /\ documents \in RerankPools
          /\ rerank_top_n = 0
       \/ /\ pc = "crr_call"
          /\ documents = <<>>
          /\ rerank_top_n \in 0..MaxTopN

RerankNext ==
    \/ RerankEnter
    \/ PredictFails
    \/ PredictReturns
    \/ CreateRerankRetriever(RerankPools)

SpecRerank == RerankInit /\ [][RerankNext]_vars

\* Some one-to-one map from the positions of out to positions of inp carries
\* each chunk of out to an equal chunk of inp, with scores non-increasing
\* along out.
OrderedSelection(out, inp, sc) ==
    \E f \in [DOMAIN out -> DOMAIN inp] :
        /\ \A i, j \in DOMAIN out : i # j => f[i] # f[j]
        /\ \A i \in DOMAIN out : inp[f[i]] = out[i]
        /\ \A i, j \in DOMAIN out : i < j => sc[f[i]] >= sc[f[j]]

\* C6: when the scorer is available and returns one score per pair,
\* rerank_documents returns chunks ordered non-increasing by score, each a
\* chunk of the input appearing no more often than in the input.
C6_SortedByScore ==
    (pc = "ret" /\ rr_path = "success") =>
        /\ Len(scores) = Len(documents)
        /\ OrderedSelection(result, documents, scores)

C6_Witness ==
    /\ pc = "ret"
    /\ rr_path = "success"
    /\ Len(documents) = 3
    /\ scores = <<0, 1, 0>>
    /\ documents = <<1, 2, 2>>
    /\ result = <<2, 1>>

\* C7: for every chunk list and every integer top_k = n >= 0,
\* rerank_documents returns exactly min(n, len(chunks)) chunks, on the success
\* path and on each degraded path.
C7_LengthMinTopK ==
    (pc = "ret" /\ rr_path \in {"empty", "unavailable", "failed", "success"}
        /\ top_k # None /\ top_k[1] >= 0)
        => Len(result) = Min(top_k[1], Len(documents))

\* C8: rerank_documents never raises; on empty input it returns an empty
\* list; when the scorer is unavailable or throws it returns the first top_k
\* chunks of the input in their original order.
C8_DegradedTruncation ==
    /\ pc # "raised"
    /\ (pc = "ret" /\ rr_path = "empty") => (documents = <<>> /\ result = <<>>)
    /\ (pc = "ret" /\ documents = <<>> /\ rr_path # "skipped") => rr_path = "empty"
    /\ (pc = "ret" /\ rr_path \in {"unavailable", "failed"}) =>
           result = IF top_k = None THEN documents
                    ELSE SubSeq(documents, 1, Min(top_k[1], Len(documents)))

\* C9: re-ranking a single-element input returns it unchanged without calling
\* the scorer, and create_rerank_retriever skips re-ranking whenever the pool
\* to be re-ranked has at most one element; the scorer is never invoked with
\* fewer than two pairs.
C9_ScorerNeedsTwo ==
    /\ \A i \in DOMAIN scorer_calls : Len(scorer_calls[i]) >= 2
    /\ (pc = "ret" /\ rr_path # "skipped" /\ Len(documents) = 1) =>
           (result = documents /\ scorer_calls = <<>>)

\* ----------------------------------------------------------------- corpus
PrefixLen == 100

RECURSIVE Rep(_, _)
Rep(c, n) == IF n = 0 THEN <<>> ELSE Append(Rep(c, n - 1), c)

\* The chunks the indexes hold. Chunks 1 and 2 agree on their first 100
\* characters and their source; chunk 3 has no "source" key; chunk 4 has the
\* content of chunk 1 and another source.
Corpus ==
    << [page_content |-> Rep("a", 100), metadata |-> [source |-> "s1"]],
       [page_content |-> Rep("a", 100) \o <<"b">>, metadata |-> [source |-> "s1"]],
       [page_content |-> Rep("a", 99) \o <<"c">>, metadata |-> <<>>],
       [page_content |-> Rep("a", 100), metadata |-> [source |-> "s2"]] >>

CorpusIds == DOMAIN Corpus

\* dict.get(key, default)
DictGet(d, key, default) == IF key \in DOMAIN d THEN d[key] ELSE default

FingerprintMutant(d) ==
    <<Corpus[d].page_content, DictGet(Corpus[d].metadata, "source", "")>>

\* (doc.page_content[:100], doc.metadata.get("source", ""))
Fingerprint(d) ==
    <<PySlice(Corpus[d].page_content, PrefixLen),
      DictGet(Corpus[d].metadata, "source", "")>>

\* hash(...) of a fingerprint: an integer, equal for equal tuples and taken
\* distinct for the distinct tuples of the corpus.
DocId(d) ==
    CHOOSE i \in CorpusIds :
        /\ Fingerprint(i) = Fingerprint(d)
        /\ \A j \in 1..(i - 1) : Fingerprint(j) # Fingerprint(d)

RECURSIVE MergeDocs(_, _, _)
\* for doc in docs: if doc_id not in seen_ids: seen_ids.add; all_docs.append
MergeDocs(all, seen, ds) ==
    IF ds = <<>> THEN [all_docs |-> all, seen_ids |-> seen]
    ELSE IF DocId(Head(ds)) \in seen
         THEN MergeDocs(all, seen, Tail(ds))
         ELSE MergeDocs(Append(all, Head(ds)), seen \cup {DocId(Head(ds))},
                        Tail(ds))

\* ------------------------------------------------------- create_retriever
DefaultMaxK == 12
DefaultBm25K == 6
fetch_k == 20
lambda_mult_tenths == 7
score_threshold_hundredths == 75
bm25_weight_tenths == 3

\* search_kwargs["filter"] is set only when metadata_filter is truthy: not
\* None and not the empty dict.
EmptyDict == "{}"
FilterKwarg(f) == IF f # None /\ f[1] # EmptyDict THEN f ELSE None

VectorRetriever(search_type, k, filter, fk, lm, th) ==
    [kind |-> "vector", search_type |-> search_type, k |-> k,
     filter |-> filter, fetch_k |-> fk, lambda_mult |-> lm,
     score_threshold |-> th]

HybridMutant(k) ==
    VectorRetriever("mmr", k, None, Some(fetch_k), Some(lambda_mult_tenths), None)

\* create_hybrid_retriever; it also sets bm25_retriever.k = k (Bm25KAfter).
create_hybrid_retriever(k) ==
    [kind |-> "ensemble",
     vector |-> VectorRetriever("mmr", k, None, Some(fetch_k),
                                Some(lambda_mult_tenths), None),
     weights |-> <<10 - bm25_weight_tenths, bm25_weight_tenths>>]

ResolveStrategyMutant(a) == auto_select_strategy(a.question)

\* if strategy == "auto": strategy = auto_select_strategy(question)
ResolveStrategy(a) ==
    IF a.strategy = "auto" THEN auto_select_strategy(a.question) ELSE a.strategy

\* The single-pass path of create_retriever for the arguments a: the values
\* it computes, the base retriever it builds and what it returns.
SinglePass(a) ==
    LET k == calculate_dynamic_k(a.question, a.base_k, DefaultMaxK)
        strat == ResolveStrategy(a)
        rr == a.use_rerank /\ a.reranker
        search_k == IF rr THEN Max(a.rerank_top_n, k * 2) ELSE k
        filter == FilterKwarg(a.metadata_filter)
        hybrid == strat = "hybrid" /\ a.bm25_retriever
        base_retriever ==
            IF strat = "similarity"
            THEN VectorRetriever("similarity", search_k, filter, None, None, None)
            ELSE IF strat = "mmr"
            THEN VectorRetriever("mmr", search_k, filter, Some(fetch_k),
                                 Some(lambda_mult_tenths), None)
            ELSE IF strat = "threshold"
            THEN VectorRetriever("similarity_score_threshold", search_k, filter,
                                 None, None, Some(score_threshold_hundredths))
            ELSE IF hybrid
            THEN create_hybrid_retriever(search_k)
            ELSE VectorRetriever("mmr", search_k, None, Some(fetch_k),
                                 Some(lambda_mult_tenths), None)
    IN  [k |-> k, strategy |-> strat, search_k |-> search_k,
         base_retriever |-> base_retriever,
         sets_bm25_k |-> hybrid,
         retriever |-> IF rr
                       THEN [kind |-> "rerank", base |-> base_retriever,
                             top_k |-> Some(k), rerank_top_n |-> a.rerank_top_n]
                       ELSE base_retriever]

\* The arguments create_multi_query_retriever passes to create_retriever for
\* one expansion query: everything else takes create_retriever's defaults.
NestedArgsMutant(q) ==
    [question |-> q, strategy |-> strategy, base_k |-> base_k,
     metadata_filter |-> metadata_filter, bm25_retriever |-> bm25_retriever,
     use_rerank |-> use_rerank, reranker |-> reranker,
     rerank_top_n |-> rerank_top_n]

NestedArgs(q) ==
    [question |-> q, strategy |-> strategy, base_k |-> base_k,
     metadata_filter |-> metadata_filter, bm25_retriever |-> bm25_retriever,
     use_rerank |-> FALSE, reranker |-> FALSE, rerank_top_n |-> 20]

\* The arguments of the outer call.
OuterArgs ==
    [question |-> question, strategy |-> strategy, base_k |-> base_k,
     metadata_filter |-> metadata_filter, bm25_retriever |-> bm25_retriever,
     use_rerank |-> use_rerank, reranker |-> reranker,
     rerank_top_n |-> rerank_top_n]

MqRetriever == [kind |-> "mq"]

\* use_multi_query and llm as the expansion loop's create_retriever call
\* receives them: it passes neither, so both take their defaults.
NestedFlags == [use_multi_query |-> FALSE, llm |-> FALSE]

\* `if use_multi_query and llm:`
EntersExpansion(f) == f.use_multi_query /\ f.llm

MqRerankTopKMutant == Some(calculate_dynamic_k(question, base_k, DefaultMaxK))

\* top_k=base_k in the lambda of the multi-query + rerank combination.
MqRerankTopK == Some(base_k)

\* What a base retriever can return for one query: no chunk twice, at most
\* k chunks from a dense search, and from the ensemble at most the k dense
\* results plus the lexical index's k.
Hits(r, lexical_k) ==
    LET n == IF r.kind = "vector" THEN Max(r.k, 0)
             ELSE Max(r.vector.k, 0) + Max(lexical_k, 0)
    IN  {s \in DocSeqs(CorpusIds, Min(n, MaxHits)) :
            \A i, j \in DOMAIN s : i # j => s[i] # s[j]}

\* ------------------------------------------- specification: orchestrator
OrchQuestions ==
    { <<"n", "e", "d", "e", "n", " ", "v", "e", " ", "k", "i", "m">>,
      <<"x">> }

OrchStrategies == {"auto", "hybrid"}

\* What the paraphrase chain can answer: two usable lines, no usable line.
OrchTexts ==
    { <<"1", ".", " ", "n", "e", "d", "e", "n", " ", "v", "e", " ", "k", "i", "m",
        "?", "\n", "2", ".", " ", "k", "a", "c", " ", "s", "u", "r", "e", "?">>,
      <<"a", "b", "c">> }

\* Every outcome of the paraphrase chain the orchestrator is run against.
OrchOutcomes == LlmOutcomes(OrchTexts)

OrchInit ==
    /\ ProcIdle
    /\ TermIdle
    /\ pc = "idle"
    /\ question \in OrchQuestions
    /\ base_k \in 0..MaxPoolK
    /\ strategy \in OrchStrategies
    /\ metadata_filter \in {None, Some("f")}
    /\ use_multi_query \in BOOLEAN
    /\ llm = use_multi_query           \* llm=llm if use_multi_query else None
    /\ num_queries \in (IF llm THEN 0..MaxExpansion ELSE {3})
    /\ CROSS_ENCODER_AVAILABLE \in BOOLEAN
    /\ reranker \in BOOLEAN
    /\ reranker => CROSS_ENCODER_AVAILABLE  \* create_reranker raises otherwise
    /\ use_rerank \in BOOLEAN
    /\ use_rerank => reranker          \* use_rerank and reranker is not None
    /\ rerank_top_n \in (IF use_rerank THEN 0..MaxTopN ELSE {20})
    /\ bm25_retriever \in BOOLEAN
    /\ bm25_k = (IF bm25_retriever THEN Some(DefaultBm25K) ELSE None)
    /\ SelIdle
    /\ llm_out = LlmFailure
    /\ queries = <<>>
    /\ query = <<>>
    /\ documents = <<>>
    /\ top_k = None
    /\ docs = <<>>
    /\ scores = <<>>
    /\ scorer_calls = <<>>
    /\ rr_path = ""
    /\ result = <<>>
    /\ qi = 0
    /\ all_docs = <<>>
    /\ seen_ids = {}
    /\ final_docs = <<>>
    /\ retriever = [kind |-> "none"]
    /\ passes = <<>>
    /\ invocations = 0
    /\ results = <<>>

Bm25KAfter(b) == IF b.sets_bm25_k THEN Some(b.search_k) ELSE bm25_k

PassRecord(q, b) ==
    [query |-> q, k |-> b.k, strategy |-> b.strategy, search_k |-> b.search_k,
     base_retriever |-> b.base_retriever,
     reranked |-> b.retriever.kind = "rerank"]

\* create_retriever without expansion: builds and returns the retriever;
\* k_out and strategy_out take what its calls of the selector returned.
CreateSinglePass ==
    /\ pc = "idle"
    /\ ~(use_multi_query /\ llm)
    /\ LET b == SinglePass(OuterArgs)
       IN  /\ retriever' = b.retriever
           /\ bm25_k' = Bm25KAfter(b)
           /\ k_out' = b.k
    /\ strategy_out' = IF strategy = "auto" THEN auto_select_strategy(question)
                       ELSE strategy_out
    /\ pc' = "built"
    /\ UNCHANGED <<procVars, held, termVars, results, question, base_k, max_k, other, k_other, genVars,
                   rrVars, cfgVars, qi, all_docs, seen_ids, final_docs, passes,
                   invocations>>

\* create_retriever with expansion enters create_multi_query_retriever,
\* which first calls generate_multi_queries.
MqGenerate(outcomes) ==
    /\ pc = "idle"
    /\ use_multi_query /\ llm
    /\ \E o \in outcomes :
           LET r == generate_multi_queries(question, o, num_queries)
           IN  /\ llm_out' = o
               /\ queries' = r.value
               /\ pc' = IF r.raised THEN "raised" ELSE "mq_loop"
    /\ qi' = 1
    /\ all_docs' = <<>>
    /\ seen_ids' = {}
    /\ results' = <<>>
    /\ llm_calls' = llm_calls + 1
    /\ depth' = 1
    /\ UNCHANGED <<procVars, held, returned, question, base_k, selVars,
                   num_queries, rrVars, cfgVars, bm25_k, final_docs, retriever,
                   passes, invocations>>

\* One iteration of `for query in queries`: the nested create_retriever call,
\* its search, and the merge of what it returned.  With keep, what the search
\* returned is also appended to results.
MqPass(keep) ==
    /\ pc = "mq_loop"
    /\ qi <= Len(queries)
    /\ LET b == SinglePass(NestedArgs(queries[qi]))
       IN  /\ bm25_k' = Bm25KAfter(b)
           /\ passes' = Append(passes, PassRecord(queries[qi], b))
           /\ IF b.retriever.kind = "rerank"
              THEN \* a function has no get_relevant_documents attribute
                   /\ pc' = "raised"
                   /\ all_docs' = <<>>
                   /\ seen_ids' = {}
                   /\ results' = <<>>
                   /\ qi' = qi
              ELSE /\ \E hits \in Hits(b.retriever, Bm25KAfter(b)[1]) :
                          LET m == MergeDocs(all_docs, seen_ids, hits)
                          IN  /\ all_docs' = m.all_docs
                              /\ seen_ids' = m.seen_ids
                              /\ results' = IF keep THEN Append(results, hits)
                                            ELSE results
                   /\ qi' = qi + 1
                   /\ pc' = pc
    /\ depth' = IF EntersExpansion(NestedFlags) THEN depth + 1 ELSE depth
    /\ UNCHANGED <<procVars, held, llm_calls, returned, question, base_k, selVars, genVars, rrVars, cfgVars,
                   final_docs, retriever, invocations>>

\* The search of one iteration raises: nothing in the loop catches it, and
\* the frame of create_multi_query_retriever is unwound with its locals.
MqPassFails ==
    /\ pc = "mq_loop"
    /\ qi <= Len(queries)
    /\ LET b == SinglePass(NestedArgs(queries[qi]))
       IN  /\ bm25_k' = Bm25KAfter(b)
           /\ passes' = Append(passes, PassRecord(queries[qi], b))
    /\ pc' = "raised"
    /\ all_docs' = <<>>
    /\ seen_ids' = {}
    /\ results' = <<>>
    /\ depth' = IF EntersExpansion(NestedFlags) THEN depth + 1 ELSE depth
    /\ UNCHANGED <<procVars, held, llm_calls, returned, question, base_k,
                   selVars, genVars, rrVars, cfgVars, qi,
                   final_docs, retriever, invocations>>

\* After the loop: the pool is cut to base_k * 2 and captured by the returned
\* function, which create_retriever wraps in the re-ranking lambda if asked.
\* The other locals of create_multi_query_retriever end with the call.
MqReturn ==
    /\ pc = "mq_loop"
    /\ qi > Len(queries)
    /\ final_docs' = PySlice(all_docs, base_k * 2)
    /\ retriever' = IF use_rerank /\ reranker
                    THEN [kind |-> "rerank", base |-> MqRetriever,
                          top_k |-> MqRerankTopK, rerank_top_n |-> rerank_top_n]
                    ELSE MqRetriever
    /\ all_docs' = <<>>
    /\ seen_ids' = {}
    /\ pc' = "built"
    /\ UNCHANGED <<procVars, held, termVars, results, question, base_k, selVars, genVars, rrVars, cfgVars,
                   bm25_k, qi, passes, invocations>>

CanInvoke ==
    /\ pc \in {"built", "ret"}
    /\ invocations < MaxInvokes

\* The caller invokes multi_query_retriever: the captured pool is returned.
InvokeMq ==
    /\ CanInvoke
    /\ retriever.kind = "mq"
    /\ invocations' = invocations + 1
    /\ query' = question
    /\ result' = final_docs
    /\ pc' = "ret"
    /\ UNCHANGED <<procVars, held, termVars, results, question, base_k, selVars, genVars, cfgVars, bm25_k, qi,
                   all_docs, seen_ids, final_docs, retriever, passes,
                   CROSS_ENCODER_AVAILABLE, documents, top_k, rerank_top_n,
                   docs, scores, scorer_calls, rr_path>>

InvokedPass ==
    LET b == SinglePass(OuterArgs) IN PassRecord(question, b)

\* The caller invokes a vector-store or ensemble retriever.
InvokeBase ==
    /\ CanInvoke
    /\ retriever.kind \in {"vector", "ensemble"}
    /\ invocations' = invocations + 1
    /\ query' = question
    /\ passes' = Append(passes, InvokedPass)
    /\ \E hits \in Hits(retriever, bm25_k[1]) : result' = hits
    /\ pc' = "ret"
    /\ UNCHANGED <<procVars, held, termVars, results, question, base_k, selVars, genVars, cfgVars, bm25_k, qi,
                   all_docs, seen_ids, final_docs, retriever,
                   CROSS_ENCODER_AVAILABLE, documents, top_k, rerank_top_n,
                   docs, scores, scorer_calls, rr_path>>

\* The search of the invoked retriever raises.
InvokeBaseFails ==
    /\ CanInvoke
    /\ retriever.kind \in {"vector", "ensemble"}
    /\ invocations' = invocations + 1
    /\ query' = question
    /\ passes' = Append(passes, InvokedPass)
    /\ pc' = "raised"
    /\ UNCHANGED <<procVars, held, termVars, results, question, base_k, selVars, genVars, cfgVars, bm25_k, qi,
                   all_docs, seen_ids, final_docs, retriever,
                   CROSS_ENCODER_AVAILABLE, documents, top_k, rerank_top_n,
                   docs, scores, scorer_calls, rr_path, result>>

\* The caller invokes the re-ranking wrapper, which calls
\* create_rerank_retriever with the wrapped retriever and its top_k.  The
\* locals of the call, its return value and the record of its scorer calls
\* start empty.
InvokeRerank ==
    /\ CanInvoke
    /\ retriever.kind = "rerank"
    /\ invocations' = invocations + 1
    /\ query' = question
    /\ top_k' = retriever.top_k
    /\ documents' = <<>>
    /\ docs' = <<>>
    /\ scores' = <<>>
    /\ scorer_calls' = <<>>
    /\ rr_path' = ""
    /\ result' = <<>>
    /\ passes' = IF retriever.base.kind = "mq" THEN passes
                 ELSE Append(passes, InvokedPass)
    /\ pc' = "crr_call"
    /\ UNCHANGED <<procVars, held, termVars, results, question, base_k, selVars, genVars, cfgVars, bm25_k, qi,
                   all_docs, seen_ids, final_docs, retriever,
                   CROSS_ENCODER_AVAILABLE, rerank_top_n>>

\* What the retriever wrapped by the re-ranking layer can return.
BasePools ==
    IF retriever.base.kind = "mq" THEN {final_docs}
    ELSE Hits(retriever.base, bm25_k[1])

\* The wrapped retriever raises inside create_rerank_retriever.
CrrBaseFails ==
    /\ pc = "crr_call"
    /\ retriever.base.kind # "mq"
    /\ pc' = "raised"
    /\ UNCHANGED <<procVars, held, termVars, question, base_k, selVars, genVars, rrVars, orchVars>>

Next ==
    \/ CreateSinglePass
    \/ MqGenerate(OrchOutcomes)
    \/ MqPass(FALSE)
    \/ MqPassFails
    \/ MqReturn
    \/ InvokeMq
    \/ InvokeBase
    \/ InvokeBaseFails
    \/ InvokeRerank
    \/ CreateRerankRetriever(BasePools)
    \/ CrrBaseFails
    \/ RerankEnter
    \/ PredictFails
    \/ PredictReturns

Spec == OrchInit /\ [][Next]_vars

C11_SearchK ==
    \A i \in DOMAIN passes :
        passes[i].search_k =
            IF use_rerank /\ reranker
            THEN (IF rerank_top_n >= passes[i].k * 2 THEN rerank_top_n
                  ELSE passes[i].k * 2)
            ELSE passes[i].k

\* C14: no failure of a collaborator during a retrieval call propagates out
\* of the retrieval layer: no call ends by raising.
C14_NoFailurePropagates == pc # "raised"

\* C15: no retrieval call changes a field of the lexical index: its k keeps
\* the value build_bm25_retriever gave it at startup.
C15_IndexesReadOnly ==
    bm25_k = (IF bm25_retriever THEN Some(DefaultBm25K) ELSE None)

\* The retriever that searches: the base of a re-ranking wrapper, or the
\* retriever itself.
BuiltBase == IF retriever.kind = "rerank" THEN retriever.base ELSE retriever

\* C18: when each base pass returns at most the number of chunks it was asked
\* for, the list handed to generation has at most k chunks (k the dynamic k
\* of the question) on the single-pass path, re-ranked or not, at most
\* 2 * base_k chunks with expansion only and at most base_k chunks with
\* expansion and re-ranking.  The single-pass bound is stated for the dense
\* retrievers, whose search returns at most its k.
C18_FinalListBound ==
    pc = "ret" =>
        IF retriever.kind = "mq"
        THEN Len(result) <= 2 * base_k
        ELSE IF retriever.kind = "rerank" /\ retriever.base.kind = "mq"
        THEN Len(result) <= base_k
        ELSE BuiltBase.kind = "vector" => Len(result) <= k_out

\* -------------------------------------- specification: expansion and merge
\* create_multi_query_retriever alone: every expansion set the texts give,
\* every list each pass can return, each list kept in results.
MergeInit ==
    /\ ProcIdle
    /\ TermIdle
    /\ pc = "idle"
    /\ question \in OrchQuestions
    /\ base_k \in 0..MaxMergeK
    /\ strategy = "auto"
    /\ metadata_filter = None
    /\ use_multi_query = TRUE
    /\ llm = TRUE
    /\ num_queries \in 0..MaxExpansion
    /\ use_rerank = FALSE
    /\ reranker = FALSE
    /\ bm25_retriever \in BOOLEAN
    /\ bm25_k = (IF bm25_retriever THEN Some(DefaultBm25K) ELSE None)
    /\ SelIdle
    /\ RerankIdle
    /\ llm_out = LlmFailure
    /\ queries = <<>>
    /\ qi = 0
    /\ all_docs = <<>>
    /\ seen_ids = {}
    /\ final_docs = <<>>
    /\ retriever = [kind |-> "none"]
    /\ passes = <<>>
    /\ invocations = 0
    /\ results = <<>>

MergeNext ==
    \/ MqGenerate(OrchOutcomes)
    \/ MqPass(TRUE)
    \/ MqPassFails
    \/ MqReturn
    \/ InvokeMq

SpecMerge == MergeInit /\ [][MergeNext]_vars


\* The fingerprint of a chunk as the data model states it: the first 100
\* characters of its content, and its source (empty when it has none).
ClaimFingerprint(d) ==
    LET c == Corpus[d].page_content
        m == Corpus[d].metadata
    IN  <<SubSeq(c, 1, IF Len(c) < 100 THEN Len(c) ELSE 100),
          IF "source" \in DOMAIN m THEN m["source"] ELSE "">>

RECURSIVE Flatten(_)
Flatten(ss) == IF ss = <<>> THEN <<>> ELSE Head(ss) \o Flatten(Tail(ss))

\* Position in s of the first chunk with the fingerprint of d.
FirstPos(s, d) ==
    CHOOSE p \in DOMAIN s :
        /\ ClaimFingerprint(s[p]) = ClaimFingerprint(d)
        /\ \A j \in 1..(p - 1) : ClaimFingerprint(s[j]) # ClaimFingerprint(d)

\* C5: the pool create_multi_query_retriever returns has no two chunks with
\* the same fingerprint, lists its chunks in order of first occurrence across
\* the per-query result lists taken in expansion-set order (original question
\* first), each chunk being the first one retrieved with its fingerprint, and
\* has at most 2 * base_k chunks.
C5_MergedPool ==
    (pc \in {"built", "ret"}) =>
        LET flat == Flatten(results)
        IN  /\ Len(results) = Len(queries)
            /\ Len(passes) = Len(queries)
            /\ queries[1] = question
            /\ \A i \in DOMAIN passes : passes[i].query = queries[i]
            /\ \A i, j \in DOMAIN final_docs :
                   i # j => ClaimFingerprint(final_docs[i]) #
                            ClaimFingerprint(final_docs[j])
            /\ \A i \in DOMAIN final_docs :
                   /\ \E p \in DOMAIN flat : flat[p] = final_docs[i]
                   /\ flat[FirstPos(flat, final_docs[i])] = final_docs[i]
            /\ \A i, j \in DOMAIN final_docs :
                   i < j => FirstPos(flat, final_docs[i]) <
                            FirstPos(flat, final_docs[j])
            /\ Len(final_docs) <= 2 * base_k

\* A returned pool of 2 * base_k > 0 chunks, merged from at least two queries
\* whose lists held more fingerprints than that, the second list repeating a
\* fingerprint of the first with another chunk.
C5_Witness ==
    /\ pc = "built"
    /\ base_k >= 1
    /\ Len(results) >= 2
    /\ Len(final_docs) = 2 * base_k
    /\ Cardinality({ClaimFingerprint(Flatten(results)[p]) :
                        p \in DOMAIN Flatten(results)}) > Len(final_docs)
    /\ \E a \in DOMAIN results[1], b \in DOMAIN results[2] :
           /\ results[1][a] # results[2][b]
           /\ ClaimFingerprint(results[1][a]) = ClaimFingerprint(results[2][b])


\* ------------------------------------------ specification: single-pass build
\* create_retriever without expansion, over every strategy value (one of them
\* unrecognised), filter, lexical index and re-ranking setting, and the
\* invocations of what it returns.
BuildQuestions ==
    { <<"k", "a", "c">>,
      <<"n", "e", "d", "e", "n", " ", "v", "e", " ", "k", "i", "m">>,
      <<"x">> }

BuildStrategies == {"auto", "similarity", "mmr", "threshold", "hybrid", "keyword"}

BuildFilters == {None, Some(EmptyDict), Some("f")}

BuildInit ==
    /\ ProcIdle
    /\ TermIdle
    /\ pc = "idle"
    /\ question \in BuildQuestions
    /\ base_k \in 0..MaxPoolK
    /\ strategy \in BuildStrategies
    /\ metadata_filter \in BuildFilters
    /\ use_multi_query = FALSE
    /\ llm = FALSE
    /\ CROSS_ENCODER_AVAILABLE = TRUE
    /\ reranker \in BOOLEAN
    /\ use_rerank \in BOOLEAN
    /\ use_rerank => reranker
    /\ rerank_top_n \in (IF use_rerank THEN 0..MaxTopN ELSE {20})
    /\ bm25_retriever \in BOOLEAN
    /\ bm25_k = (IF bm25_retriever THEN Some(DefaultBm25K) ELSE None)
    /\ SelIdle
    /\ GenIdle
    /\ query = <<>>
    /\ documents = <<>>
    /\ top_k = None
    /\ docs = <<>>
    /\ scores = <<>>
    /\ scorer_calls = <<>>
    /\ rr_path = ""
    /\ result = <<>>
    /\ qi = 0
    /\ all_docs = <<>>
    /\ seen_ids = {}
    /\ final_docs = <<>>
    /\ retriever = [kind |-> "none"]
    /\ passes = <<>>
    /\ invocations = 0
    /\ results = <<>>

BuildNext ==
    \/ CreateSinglePass
    \/ InvokeBase
    \/ InvokeBaseFails
    \/ InvokeRerank
    \/ CreateRerankRetriever(BasePools)
    \/ CrrBaseFails
    \/ RerankEnter
    \/ PredictFails
    \/ PredictReturns

SpecBuild == BuildInit /\ [][BuildNext]_vars

\* The search mode of a base retriever.
ModeOf(r) == IF r.kind = "ensemble" THEN "ensemble" ELSE r.search_type

\* C12: in the single-pass path the selector runs only when strategy is
\* "auto"; for any other strategy value the search mode built is the one every
\* other question gives with the same strategy and lexical index (it is the
\* mode that pair determines), while k is still the dynamic k of the question.
C12_ExplicitStrategy ==
    (pc # "idle" /\ pc # "raised") =>
        /\ k_out = calculate_dynamic_k(question, base_k, DefaultMaxK)
        /\ (strategy = "auto") =>
               strategy_out \in {"similarity", "mmr", "hybrid"}
        /\ (strategy # "auto") =>
               /\ strategy_out = ""
               /\ \A q \in BuildQuestions :
                      ModeOf(SinglePass([OuterArgs EXCEPT !.question = q])
                                 .base_retriever) = ModeOf(BuiltBase)
               /\ ModeOf(BuiltBase) =
                      CASE strategy = "similarity" -> "similarity"
                        [] strategy = "mmr" -> "mmr"
                        [] strategy = "threshold" -> "similarity_score_threshold"
                        [] strategy = "hybrid" /\ bm25_retriever -> "ensemble"
                        [] OTHER -> "mmr"

\* An explicit "similarity" was built although the selector would have picked
\* "mmr" for the question, whose dynamic k is above base_k.
C12_Witness ==
    /\ pc = "built"
    /\ strategy = "similarity"
    /\ auto_select_strategy(question) = "mmr"
    /\ ModeOf(BuiltBase) = "similarity"
    /\ k_out > base_k
    /\ strategy_out = ""

\* The strategy in force after the selector step, and the number of
\* candidates a pass with dynamic k_out asks for.
ResolvedStrategy == IF strategy = "auto" THEN strategy_out ELSE strategy

RequestedK ==
    IF use_rerank /\ reranker
    THEN (IF rerank_top_n >= k_out * 2 THEN rerank_top_n ELSE k_out * 2)
    ELSE k_out

\* C13: when the resolved strategy is hybrid and there is no lexical index,
\* create_retriever returns normally with the mmr dense retriever, with the k
\* the pass requests and the fetch_k and lambda_mult given; with a lexical
\* index it builds the fused dense + lexical retriever.  Nothing raises before
\* the returned retriever is invoked.
C13_HybridFallback ==
    /\ (pc = "raised") => invocations > 0
    /\ (pc # "idle" /\ ResolvedStrategy = "hybrid") =>
           IF bm25_retriever
           THEN /\ BuiltBase.kind = "ensemble"
                /\ BuiltBase.vector.search_type = "mmr"
                /\ BuiltBase.vector.k = RequestedK
           ELSE /\ BuiltBase.kind = "vector"
                /\ BuiltBase.search_type = "mmr"
                /\ BuiltBase.k = RequestedK
                /\ BuiltBase.fetch_k = Some(fetch_k)
                /\ BuiltBase.lambda_mult = Some(lambda_mult_tenths)
                /\ bm25_k = None

\* The selector resolved "auto" to hybrid, no lexical index exists, and the
\* mmr retriever built in its place was invoked and returned.
C13_Witness ==
    /\ pc = "ret"
    /\ strategy = "auto"
    /\ strategy_out = "hybrid"
    /\ ~bm25_retriever
    /\ BuiltBase.kind = "vector"
    /\ BuiltBase.search_type = "mmr"
    /\ result # <<>>

\* The dense retriever whose search a base retriever runs.
DenseOf(r) == IF r.kind = "ensemble" THEN r.vector ELSE r

\* C20: when create_retriever is given a non-empty metadata filter, every
\* dense search issued by the retriever it builds carries that filter,
\* whichever strategy was resolved (similarity, mmr, threshold, hybrid, or the
\* mmr fallback).
C20_FilterCarried ==
    (metadata_filter # None /\ metadata_filter # Some(EmptyDict)) =>
        \A i \in DOMAIN passes :
            DenseOf(passes[i].base_retriever).filter = metadata_filter

\* ------------------------------------------------- specification: main.py
DefaultBaseK == 6

CreateVectorstoreMutant(c, p) ==
    IF p THEN {"loaded", "raised"} ELSE {"created", "raised"}

\* create_vectorstore(docs, ...): what it can do, c telling whether docs is
\* non-empty and p whether the persist directory exists and is not empty.
\* Chroma(...) and Chroma.from_documents(...) can raise.
create_vectorstore(c, p) ==
    IF p THEN {"loaded", "raised"}
    ELSE IF ~c THEN {"raised"}
    ELSE {"created", "raised"}

BuildsLexicalIndexMutant(c) == TRUE

\* `if docs:` before build_bm25_retriever
BuildsLexicalIndex(c) == c

MainInit ==
    /\ pc = "start"
    /\ chunks \in BOOLEAN
    /\ persisted \in BOOLEAN
    /\ vectorstore = FALSE
    /\ bm25_builds = 0
    /\ queries_read = 0
    /\ held = <<>>
    /\ TermIdle
    /\ question = <<>>
    /\ base_k = DefaultBaseK
    /\ strategy = "auto"
    /\ metadata_filter = None
    /\ use_multi_query = FALSE
    /\ llm = FALSE
    /\ use_rerank = FALSE
    /\ reranker = FALSE
    /\ CROSS_ENCODER_AVAILABLE \in BOOLEAN
    /\ rerank_top_n = 20
    /\ bm25_retriever = FALSE
    /\ bm25_k = None
    /\ SelIdle
    /\ GenIdle
    /\ query = <<>>
    /\ documents = <<>>
    /\ top_k = None
    /\ docs = <<>>
    /\ scores = <<>>
    /\ scorer_calls = <<>>
    /\ rr_path = ""
    /\ result = <<>>
    /\ qi = 0
    /\ all_docs = <<>>
    /\ seen_ids = {}
    /\ final_docs = <<>>
    /\ retriever = [kind |-> "none"]
    /\ passes = <<>>
    /\ invocations = 0
    /\ results = <<>>

mainFrame == <<question, base_k, selVars, genVars, query, documents, top_k,
               rerank_top_n, docs, scores, scorer_calls, rr_path, strategy,
               metadata_filter, use_multi_query, llm, use_rerank, qi,
               all_docs, seen_ids, final_docs, passes, results, chunks,
               persisted, held, termVars>>

\* create_embeddings, load_documents and the splitter returned.
LoadDocuments ==
    /\ pc = "start"
    /\ pc' = "vs"
    /\ UNCHANGED <<mainFrame, CROSS_ENCODER_AVAILABLE, result, reranker,
                   bm25_retriever, bm25_k, retriever, invocations,
                   vectorstore, bm25_builds, queries_read>>

\* One of them raised: nothing catches it and the process ends.
LoadDocumentsFails ==
    /\ pc = "start"
    /\ pc' = "crashed"
    /\ UNCHANGED <<mainFrame, CROSS_ENCODER_AVAILABLE, result, reranker,
                   bm25_retriever, bm25_k, retriever, invocations,
                   vectorstore, bm25_builds, queries_read>>

\* try: vectorstore = create_vectorstore(docs, embeddings)
\* except Exception: sys.exit(1)
CreateVectorstore ==
    /\ pc = "vs"
    /\ \E o \in create_vectorstore(chunks, persisted) :
           IF o = "raised"
           THEN /\ pc' = "exited"
                /\ UNCHANGED vectorstore
           ELSE /\ pc' = "bm25"
                /\ vectorstore' = TRUE
    /\ UNCHANGED <<mainFrame, CROSS_ENCODER_AVAILABLE, result, reranker,
                   bm25_retriever, bm25_k, retriever, invocations,
                   bm25_builds, queries_read>>

\* bm25_retriever = None; if docs: try: build_bm25_retriever(docs): the build
\* returns the index with k = 6.
BuildBm25 ==
    /\ pc = "bm25"
    /\ IF BuildsLexicalIndex(chunks)
       THEN /\ bm25_builds' = bm25_builds + 1
            /\ bm25_retriever' = TRUE
            /\ bm25_k' = Some(DefaultBm25K)
       ELSE UNCHANGED <<bm25_builds, bm25_retriever, bm25_k>>
    /\ pc' = "reranker"
    /\ UNCHANGED <<mainFrame, CROSS_ENCODER_AVAILABLE, result, reranker,
                   retriever, invocations, vectorstore, queries_read>>

\* The build raises: the except branch prints and bm25_retriever stays None.
BuildBm25Fails ==
    /\ pc = "bm25"
    /\ BuildsLexicalIndex(chunks)
    /\ bm25_builds' = bm25_builds + 1
    /\ pc' = "reranker"
    /\ UNCHANGED <<mainFrame, CROSS_ENCODER_AVAILABLE, result, reranker,
                   bm25_retriever, bm25_k, retriever, invocations,
                   vectorstore, queries_read>>

\* reranker = None; try: create_reranker(): it raises when the CrossEncoder
\* import failed, and loading the model can raise as well.
LoadReranker ==
    /\ pc = "reranker"
    /\ reranker' \in (IF CROSS_ENCODER_AVAILABLE THEN BOOLEAN ELSE {FALSE})
    /\ pc' = "loop"
    /\ UNCHANGED <<mainFrame, CROSS_ENCODER_AVAILABLE, result,
                   bm25_retriever, bm25_k, retriever, invocations,
                   vectorstore, bm25_builds, queries_read>>

loopFrame == <<base_k, selVars, genVars, documents, top_k, rerank_top_n,
               docs, scores, scorer_calls, rr_path, strategy,
               metadata_filter, use_multi_query, llm, use_rerank, qi,
               all_docs, seen_ids, final_docs, passes, results, chunks,
               persisted, held, termVars, CROSS_ENCODER_AVAILABLE, reranker,
               bm25_retriever, bm25_k, vectorstore, bm25_builds>>

\* query = input(...).strip(): a question.
ReadQuery ==
    /\ pc = "loop"
    /\ queries_read < MaxQueries
    /\ queries_read' = queries_read + 1
    /\ question' \in BuildQuestions
    /\ pc' = "idle"
    /\ UNCHANGED <<loopFrame, query, result, retriever, invocations>>

\* An empty line: `continue`.
ReadEmpty ==
    /\ pc = "loop"
    /\ queries_read < MaxQueries
    /\ queries_read' = queries_read + 1
    /\ UNCHANGED <<pc, question, loopFrame, query, result, retriever,
                   invocations>>

\* "exit", "quit" or "cikis": `break`.
ReadExit ==
    /\ pc = "loop"
    /\ queries_read < MaxQueries
    /\ queries_read' = queries_read + 1
    /\ pc' = "done"
    /\ UNCHANGED <<question, loopFrame, query, result, retriever, invocations>>

\* rag_chain.stream(query) invokes the retriever once.
MainInvoke ==
    /\ pc = "built"
    /\ InvokeBase

\* Its search raises.
MainInvokeFails ==
    /\ pc = "built"
    /\ InvokeBaseFails

\* The answer was printed, or `except Exception` printed the error: the loop
\* goes on to the next input with the retriever of this query dropped.
QueryDone ==
    /\ pc \in {"ret", "raised"}
    /\ pc' = "loop"
    /\ retriever' = [kind |-> "none"]
    /\ invocations' = 0
    /\ result' = <<>>
    /\ query' = <<>>
    /\ UNCHANGED <<question, loopFrame, queries_read>>

MainNext ==
    \/ LoadDocuments
    \/ LoadDocumentsFails
    \/ CreateVectorstore
    \/ BuildBm25
    \/ BuildBm25Fails
    \/ LoadReranker
    \/ ReadQuery
    \/ ReadEmpty
    \/ ReadExit
    \/ CreateSinglePass
    \/ MainInvoke
    \/ MainInvokeFails
    \/ QueryDone

SpecMain == MainInit /\ [][MainNext]_vars

\* Program points of the query loop and of one query's retrieval.
LoopPhase == {"loop", "idle", "built", "ret", "raised", "done"}

\* C16: with no chunks and no persisted vector store, startup ends the
\* process before any query is read; the query loop is entered only after
\* create_vectorstore succeeded, so every query is served with a vector store.
C16_FatalAtStartup ==
    /\ (~chunks /\ ~persisted) =>
           /\ pc \in {"start", "vs", "exited", "crashed"}
           /\ queries_read = 0
    /\ (pc \in LoopPhase \/ pc \in {"bm25", "reranker"}) => vectorstore
    /\ queries_read > 0 => vectorstore
    /\ pc \in {"exited", "crashed"} => queries_read = 0 /\ passes = <<>>

C16_Witness ==
    /\ pc = "exited"
    /\ ~chunks
    /\ ~persisted
    /\ ~vectorstore
    /\ queries_read = 0

\* C17: the lexical index is built at most once, before the first query is
\* read; with an empty chunk set no build is attempted, a failed build is not
\* retried, the process goes on into the query loop without a lexical index,
\* and every query whose strategy resolves to hybrid is then served by the
\* mmr fallback.
C17_LexicalBuiltOnce ==
    /\ bm25_builds <= 1
    /\ pc \in {"start", "vs", "bm25", "exited", "crashed"} =>
           bm25_builds = 0 /\ queries_read = 0 /\ ~bm25_retriever
    /\ pc \in LoopPhase \/ pc = "reranker" =>
           bm25_builds = (IF chunks THEN 1 ELSE 0)
    /\ bm25_retriever => chunks /\ bm25_builds = 1
    /\ \A i \in DOMAIN passes :
           passes[i].strategy = "hybrid" =>
               IF bm25_retriever
               THEN passes[i].base_retriever.kind = "ensemble"
               ELSE /\ passes[i].base_retriever.kind = "vector"
                    /\ passes[i].base_retriever.search_type = "mmr"

C17_Witness ==
    /\ pc = "ret"
    /\ chunks
    /\ bm25_builds = 1
    /\ ~bm25_retriever
    /\ queries_read = MaxQueries
    /\ Len(passes) = MaxQueries
    /\ \A i \in DOMAIN passes :
           /\ passes[i].strategy = "hybrid"
           /\ passes[i].base_retriever.kind = "vector"
           /\ passes[i].base_retriever.search_type = "mmr"

\* ------------------------------- specification: one shared lexical index
\* A caller that holds several retrievers built by create_retriever over the
\* same BM25 index, as the expansion loop builds one per query, and invokes
\* them in any order.
SharedInit ==
    /\ pc = "shared"
    /\ chunks = TRUE
    /\ persisted = FALSE
    /\ vectorstore = TRUE
    /\ bm25_builds = 1
    /\ queries_read = 0
    /\ held = <<>>
    /\ TermIdle
    /\ question = <<>>
    /\ base_k \in 0..MaxPoolK
    /\ strategy \in OrchStrategies
    /\ metadata_filter = None
    /\ use_multi_query = FALSE
    /\ llm = FALSE
    /\ use_rerank = FALSE
    /\ reranker = FALSE
    /\ CROSS_ENCODER_AVAILABLE \in BOOLEAN
    /\ rerank_top_n = 20
    /\ bm25_retriever = TRUE
    /\ bm25_k = Some(DefaultBm25K)
    /\ SelIdle
    /\ GenIdle
    /\ query = <<>>
    /\ documents = <<>>
    /\ top_k = None
    /\ docs = <<>>
    /\ scores = <<>>
    /\ scorer_calls = <<>>
    /\ rr_path = ""
    /\ result = <<>>
    /\ qi = 0
    /\ all_docs = <<>>
    /\ seen_ids = {}
    /\ final_docs = <<>>
    /\ retriever = [kind |-> "none"]
    /\ passes = <<>>
    /\ invocations = 0
    /\ results = <<>>

sharedFrame == <<pc, base_k, selVars, genVars, documents, top_k,
                 rerank_top_n, docs, scores, scorer_calls, rr_path, strategy,
                 metadata_filter, use_multi_query, llm, use_rerank, qi,
                 all_docs, seen_ids, final_docs, results, procVars,
                 CROSS_ENCODER_AVAILABLE, reranker, bm25_retriever, retriever,
                 termVars>>

\* create_retriever(vectorstore, bm25_retriever=bm25, strategy=..., base_k=...,
\* question=q): the retriever is kept by the caller; a hybrid construction
\* writes its k to the index.
SharedBuild ==
    /\ Len(held) < MaxHeld
    /\ \E q \in BuildQuestions :
           LET b == SinglePass(NestedArgs(q))
           IN  /\ question' = q
               /\ held' = Append(held, b.retriever)
               /\ bm25_k' = Bm25KAfter(b)
    /\ UNCHANGED <<sharedFrame, query, result, passes, invocations>>

\* One search of a retriever's invocation: its kind and the k it runs with.
\* The lexical search reads the k field of the index at the time of the call.
SearchesOf(r) ==
    IF r.kind = "ensemble"
    THEN [dense_k |-> Some(r.vector.k), lexical_k |-> bm25_k]
    ELSE [dense_k |-> Some(r.k), lexical_k |-> None]

\* held[i].get_relevant_documents(question)
SharedInvoke ==
    /\ invocations < MaxInvokes
    /\ \E i \in DOMAIN held :
           /\ passes' = Append(passes, SearchesOf(held[i]))
           /\ \E hits \in Hits(held[i], bm25_k[1]) : result' = hits
    /\ invocations' = invocations + 1
    /\ query' = question
    /\ UNCHANGED <<sharedFrame, question, held, bm25_k>>

SharedNext ==
    \/ SharedBuild
    \/ SharedInvoke

SpecShared == SharedInit /\ [][SharedNext]_vars

\* C19: whatever the order of constructions and invocations of hybrid
\* retrievers over one lexical index, the lexical search of every invocation
\* uses the k its retriever was built with, the k of its dense search.
C19_LexicalKIsOwn ==
    \A i \in DOMAIN passes :
        passes[i].lexical_k # None => passes[i].lexical_k = passes[i].dense_k

\* ------------------- specification: create_retriever with use_multi_query
\* The expansion path of create_retriever and a caller that invokes the
\* returned retriever several times, each time with a query of its choice.
TermQueries == OrchQuestions

TermInit ==
    /\ OrchInit
    /\ use_multi_query

\* One more call of the returned retriever: the caller keeps what the call
\* before it returned.
Kept ==
    IF invocations > 0
    THEN Append(returned, [query |-> query, docs |-> result])
    ELSE returned

\* multi_query_retriever(q)
TermInvokeMq ==
    /\ CanInvoke
    /\ retriever.kind = "mq"
    /\ invocations' = invocations + 1
    /\ \E q \in TermQueries : query' = q
    /\ returned' = Kept
    /\ result' = final_docs
    /\ pc' = "ret"
    /\ UNCHANGED <<procVars, held, llm_calls, depth, question, base_k, selVars,
                   genVars, cfgVars, bm25_k, qi, all_docs, seen_ids,
                   final_docs, retriever, passes, results,
                   CROSS_ENCODER_AVAILABLE, documents, top_k, rerank_top_n,
                   docs, scores, scorer_calls, rr_path>>

\* (lambda q: create_rerank_retriever(base_retriever, q, ...))(q)
TermInvokeRerank ==
    /\ CanInvoke
    /\ retriever.kind = "rerank"
    /\ invocations' = invocations + 1
    /\ \E q \in TermQueries : query' = q
    /\ returned' = Kept
    /\ top_k' = retriever.top_k
    /\ documents' = <<>>
    /\ docs' = <<>>
    /\ scores' = <<>>
    /\ scorer_calls' = <<>>
    /\ rr_path' = ""
    /\ result' = <<>>
    /\ pc' = "crr_call"
    /\ UNCHANGED <<procVars, held, llm_calls, depth, question, base_k, selVars,
                   genVars, cfgVars, bm25_k, qi, all_docs, seen_ids,
                   final_docs, retriever, passes, results,
                   CROSS_ENCODER_AVAILABLE, rerank_top_n>>

TermNext ==
    \/ MqGenerate(OrchOutcomes)
    \/ MqPass(FALSE)
    \/ MqPassFails
    \/ MqReturn
    \/ TermInvokeMq
    \/ TermInvokeRerank
    \/ CreateRerankRetriever(BasePools)
    \/ RerankEnter
    \/ PredictFails
    \/ PredictReturns

SpecTerm == TermInit /\ [][TermNext]_vars

\* Program points at which create_retriever has returned its retriever.
Returned == {"built", "crr_call", "rd_call", "predict", "ret"}

\* C21: a create_retriever call with use_multi_query set invokes paraphrase
\* generation exactly once, its nested create_retriever calls never take the
\* expansion path (depth one), and it runs one base pass per query of the
\* expansion set, which has at most 1 + num_queries queries, so the loop ends;
\* calls of the returned retriever run no further pass and all return the
\* same list, whatever query they are given.
C21_ExpansionTerminates ==
    /\ llm_calls = (IF pc = "idle" THEN 0 ELSE 1)
    /\ depth = (IF pc = "idle" THEN 0 ELSE 1)
    /\ pc # "idle" => Len(queries) <= 1 + num_queries
    /\ pc = "mq_loop" => qi = Len(passes) + 1 /\ qi <= Len(queries) + 1
    /\ Len(passes) <= Len(queries)
    /\ pc \in Returned => Len(passes) = Len(queries)
    /\ pc = "ret" => \A i \in DOMAIN returned : returned[i].docs = result

\* ------------------------------------------------------ selector questions
Words ==
    { <<>>,
      <<"k", "a", "c">>,
      <<"s", "u", "r", "e">>,
      <<"n", "e", " ", "z", "a", "m", "a", "n">>,
      <<"d", "a", "k", "i", "k", "a">>,
      <<"n", "e", "d", "e", "n">>,
      <<"n", "a", "s", "i", "l">>,
      <<"v", "e">>,
      <<"h", "a", "n", "g", "i">>,
      <<"k", "i", "m">>,
      <<"n", "e">>,
      <<"d", "e", "n">>,
      <<" ", "z", "a", "m", "a", "n">>,
      <<"K", "A", "C">>,
      <<"N", "a", "s", "i", "l">>,
      <<"K", "U+0130", "M">>,
      <<"x">>,
      <<"k", "i", "m", " ", "v", "e", " ">> }

SelQuestions == {w1 \o w2 : w1 \in Words, w2 \in Words} \cup Examples

\* Questions matching 0, 1, 2 and 3 indicator terms.
ProbeQuestions ==
    { <<"x">>,
      <<"k", "a", "c">>,
      <<"k", "i", "m">>,
      <<"n", "e", "d", "e", "n">>,
      <<"k", "i", "m", " ", "v", "e", " ">>,
      <<"k", "i", "m", " ", "v", "e", " ", "n", "e", "d", "e", "n">> }

\* -------------------------------------------------- specification: selector
SelInit ==
    /\ ProcIdle
    /\ TermIdle
    /\ pc = "sel_call"
    /\ question \in SelQuestions
    /\ other \in ProbeQuestions
    /\ base_k \in 0..MaxBaseK
    /\ max_k \in 0..MaxMaxK
    /\ k_out = 0
    /\ k_other = 0
    /\ strategy_out = ""
    /\ GenIdle
    /\ RerankIdle
    /\ OrchIdle

\* The caller evaluates both selector functions on its question.
Select ==
    /\ pc = "sel_call"
    /\ k_out' = calculate_dynamic_k(question, base_k, max_k)
    /\ k_other' = calculate_dynamic_k(other, base_k, max_k)
    /\ strategy_out' = auto_select_strategy(question)
    /\ pc' = "sel_ret"
    /\ UNCHANGED <<procVars, held, termVars, question, other, base_k, max_k, genVars, rrVars, orchVars>>

SelNext == Select

SpecSel == SelInit /\ [][SelNext]_vars

\* ------------------------------------------------------ claims: selector
ClaimNumeric ==
    { <<"k", "a", "c">>, <<"s", "u", "r", "e">>,
      <<"n", "e", " ", "z", "a", "m", "a", "n">>,
      <<"d", "a", "k", "i", "k", "a">> }
ClaimWhyHow == { <<"n", "e", "d", "e", "n">>, <<"n", "a", "s", "i", "l">> }
HasNumeric(q) == \E x \in ClaimNumeric : Contains(x, Lower(q))
HasWhyHow(q) == \E x \in ClaimWhyHow : Contains(x, Lower(q))

\* C1: auto_select_strategy returns hybrid when the lower-cased question
\* contains a numeric-class term, otherwise mmr when it contains "neden" or
\* "nasil", otherwise similarity; a question with both classes resolves to
\* hybrid, and no question resolves to any other value.
C1_StrategyPrecedence ==
    pc = "sel_ret" =>
        /\ strategy_out \in {"hybrid", "mmr", "similarity"}
        /\ HasNumeric(question) => strategy_out = "hybrid"
        /\ (~HasNumeric(question) /\ HasWhyHow(question)) => strategy_out = "mmr"
        /\ (~HasNumeric(question) /\ ~HasWhyHow(question))
               => strategy_out = "similarity"

C1_Witness ==
    /\ pc = "sel_ret"
    /\ question = ExampleDurationWhy
    /\ HasNumeric(question) /\ HasWhyHow(question)
    /\ strategy_out = "hybrid"

ClaimIndicators ==
    { <<"v", "e">>, <<"n", "e", "d", "e", "n">>, <<"n", "a", "s", "i", "l">>,
      <<"h", "a", "n", "g", "i">>, <<"n", "e", " ", "z", "a", "m", "a", "n">>,
      <<"k", "i", "m">> }
Occurring(q) == {x \in ClaimIndicators : Contains(x, Lower(q))}

\* C2: calculate_dynamic_k returns base_k + 4 when at least two distinct
\* indicator terms occur in the lower-cased question, base_k + 2 when exactly
\* one occurs and base_k when none occurs, in every case capped at max_k, so
\* the returned k never exceeds max_k.
C2_DynamicKCapped ==
    pc = "sel_ret" =>
        LET n == Cardinality(Occurring(question))
            raw == IF n >= 2 THEN base_k + 4
                   ELSE IF n = 1 THEN base_k + 2
                   ELSE base_k
        IN  k_out = Min(raw, max_k) /\ k_out <= max_k

\* C3: for base_k <= max_k, calculate_dynamic_k is monotonic non-decreasing
\* in the number of indicator terms matched, and its result lies between
\* base_k and max_k inclusive.
C3_DynamicKMonotonic ==
    (pc = "sel_ret" /\ base_k <= max_k) =>
        /\ base_k <= k_out /\ k_out <= max_k
        /\ Cardinality(Occurring(other)) <= Cardinality(Occurring(question))
               => k_other <= k_out
        /\ Cardinality(Occurring(other)) >= Cardinality(Occurring(question))
               => k_other >= k_out

C3_Witness ==
    /\ pc = "sel_ret"
    /\ base_k <= max_k
    /\ Cardinality(Occurring(other)) = 1
    /\ Cardinality(Occurring(question)) >= 2
    /\ k_other < k_out
    /\ k_out = max_k

====
